---------------------------- MODULE Spec2Model ----------------------------
(***************************************************************************)
(* Model of apps/src/lib/wallet/keys.rs: the wallet's stored keypairs.     *)
(*                                                                         *)
(*   AtomicKeypair     Arc<Mutex<Keypair>>: a cell of the heap, its lock   *)
(*                     and its poison flag; a handle is the cell's index.  *)
(*   EncryptedKeypair  Vec<u8>: salt || nonce || ciphertext || tag.        *)
(*   StoredKeypair     Raw(handle) | Encrypted(envelope), with its text    *)
(*                     codec ("unencrypted:" / "encrypted:" + hex).        *)
(*                                                                         *)
(* Strings are sequences of one-character strings, bytes are 0..255.       *)
(* orion's Argon2i and XChaCha20-Poly1305 are replaced by a byte-level     *)
(* stand-in with the same lengths, the same error conditions and the       *)
(* properties the callers rely on: the key is an injective function of     *)
(* (salt, password), the tag binds the key, the nonce and the ciphertext.  *)
(***************************************************************************)
EXTENDS Integers, Sequences, FiniteSets, TLC

\* ------------------------------------------------------------------ sizes

\* kdf::Salt::default() is SALT_LENGTH = 16 bytes long.
SALT_LENGTH == 16
\* The length asked of kdf::derive_key.
KEY_LENGTH == 32
\* aead::seal puts a 24-byte XChaCha20 nonce before the ciphertext ...
NONCE_LENGTH == 24
\* ... and a 16-byte Poly1305 tag after it.
TAG_LENGTH == 16
\* Keypair::to_bytes: [u8; 64], the secret half then the public half.
KEYPAIR_LENGTH == 64
SECRET_LENGTH == KEYPAIR_LENGTH \div 2

\* ----------------------------------------------------------------- bounds

\* Keypairs the holders generate: GenKeypair(1) .. GenKeypair(NKeys).
NKeys == 2
\* Values of the random source (salts and nonces): 1 .. NRand.
NRand == 1
\* Passwords are the strings over {"a", "b"} of length 0 .. MaxPwLen.
MaxPwLen == 1
\* Arbitrary stored byte strings are enumerated up to this length.
MaxJunkLen == 2

Min(a, b) == IF a < b THEN a ELSE b

Fill(n, b) == [i \in 1..n |-> b]

RECURSIVE SeqsUpTo(_, _)
SeqsUpTo(S, n) ==
  IF n = 0 THEN {<<>>}
  ELSE LET shorter == SeqsUpTo(S, n - 1)
       IN  shorter \cup {Append(s, x) : s \in shorter, x \in S}

\* -------------------------------------------------------------------- hex

HexDigits == <<"0","1","2","3","4","5","6","7","8","9","a","b","c","d","e","f">>
HexUpper  == <<"0","1","2","3","4","5","6","7","8","9","A","B","C","D","E","F">>

IsHexChar(c) == \E i \in 1..16 : HexDigits[i] = c \/ HexUpper[i] = c

HexVal(c) == (CHOOSE i \in 1..16 : HexDigits[i] = c \/ HexUpper[i] = c) - 1

\* hex::encode: two lowercase digits per byte, high nibble first.
hex_encode(bytes) ==
  [i \in 1..(2 * Len(bytes)) |->
     IF i % 2 = 1 THEN HexDigits[(bytes[(i + 1) \div 2] \div 16) + 1]
                  ELSE HexDigits[(bytes[i \div 2] % 16) + 1]]

\* hex::decode: OddLength, then InvalidHexCharacter, else the bytes; either
\* case of a digit is accepted.
hex_decode(s) ==
  IF Len(s) % 2 = 1 THEN [ok |-> FALSE, val |-> <<>>, err |-> "OddLength"]
  ELSE IF \E i \in 1..Len(s) : ~IsHexChar(s[i])
       THEN [ok |-> FALSE, val |-> <<>>, err |-> "InvalidHexCharacter"]
  ELSE [ok |-> TRUE,
        val |-> [i \in 1..(Len(s) \div 2) |->
                   16 * HexVal(s[2 * i - 1]) + HexVal(s[2 * i])],
        err |-> ""]

\* ---------------------------------------------------------------- keypair

\* The public half that belongs to a secret half (ed25519's derivation,
\* abstracted: a bytewise injective map onto valid points).
PublicOfSecret(secret) == [i \in 1..Len(secret) |-> (2 * secret[i] + 1) % 256]

\* A keypair a holder generated: KEYPAIR_LENGTH bytes.
GenKeypair(seed) ==
  Fill(SECRET_LENGTH, seed) \o PublicOfSecret(Fill(SECRET_LENGTH, seed))

Keypairs == {GenKeypair(s) : s \in 1..NKeys}

\* Keypair.public
PublicHalf(kp) == SubSeq(kp, SECRET_LENGTH + 1, Len(kp))
SecretHalf(kp) == SubSeq(kp, 1, Min(SECRET_LENGTH, Len(kp)))

\* A public half decompresses to a curve point; here: its first byte is odd.
IsValidPoint(pub) == Len(pub) > 0 /\ pub[1] % 2 = 1

\* Keypair::try_from_slice / Keypair::from_bytes: the length and the point.
IsKeypairBytes(bytes) ==
  /\ Len(bytes) = KEYPAIR_LENGTH
  /\ IsValidPoint(PublicHalf(bytes))

\* Keypair's Display: the hex text of its bytes.
KeypairToString(kp) == hex_encode(kp)

\* Keypair::from_str: hex decoding, then the bytes must form a keypair.
KeypairFromStr(s) ==
  LET d == hex_decode(s)
  IN  IF ~d.ok THEN d
      ELSE IF ~IsKeypairBytes(d.val)
           THEN [ok |-> FALSE, val |-> <<>>, err |-> "InvalidKeypair"]
      ELSE d

\* ----------------------------------------------------------- orion stand-in

\* What the random source can return: NRand salts, NRand nonces.
Salts  == {Fill(SALT_LENGTH, r) : r \in 1..NRand}
Nonces == {Fill(NONCE_LENGTH, 16 * r) : r \in 1..NRand}

\* Passwords as their bytes; "a" is 97.
PwBytes == {97, 98}
Passwords == SeqsUpTo(PwBytes, MaxPwLen)

Failed == [ok |-> FALSE, val |-> <<>>, err |-> "UnknownCryptoError"]
Done(v) == [ok |-> TRUE, val |-> v, err |-> ""]

\* kdf::Salt::from_slice and kdf::Password::from_slice refuse an empty slice.
salt_from_slice(raw) == IF Len(raw) = 0 THEN Failed ELSE Done(raw)
password_from_slice(bytes) == IF Len(bytes) = 0 THEN Failed ELSE Done(bytes)

\* kdf::derive_key(password, salt, 3, 1 << 16, 32): KEY_LENGTH bytes, an
\* injective function of (salt, password): the salt, the password's length,
\* the password, zero padding.
derive_key(password, salt) ==
  LET material == salt \o <<Len(password)>> \o password
  IN  Done([i \in 1..KEY_LENGTH |->
              IF i <= Len(material) THEN material[i] ELSE 0])

\* The sum of m[j], m[j + TAG_LENGTH], m[j + 2 * TAG_LENGTH], ... modulo 256.
RECURSIVE StrideSum(_, _)
StrideSum(m, j) ==
  IF j > Len(m) THEN 0 ELSE (m[j] + StrideSum(m, j + TAG_LENGTH)) % 256

\* The tag of (nonce || ciphertext) under a key: TAG_LENGTH bytes. Every byte
\* of the message is summed into one byte of the tag; for one message, two
\* keys that differ in one byte give tags that differ.
Tag(key, msg) ==
  [i \in 1..TAG_LENGTH |->
     (key[i] + 7 * key[i + TAG_LENGTH] + StrideSum(msg, i)) % 256]

KeyStream(key, nonce, j) ==
  (key[((j - 1) % KEY_LENGTH) + 1] + nonce[((j - 1) % NONCE_LENGTH) + 1] + j) % 256

\* aead::seal with the nonce the random source gave:
\* nonce || ciphertext || tag; an empty plaintext is refused.
aead_seal(key, nonce, plaintext) ==
  IF Len(plaintext) = 0 THEN Failed
  ELSE LET ct == [j \in 1..Len(plaintext) |->
                    (plaintext[j] + KeyStream(key, nonce, j)) % 256]
       IN  Done(nonce \o ct \o Tag(key, nonce \o ct))

\* aead::open: too short to hold a nonce, a tag and one byte, or a tag that
\* does not match: an error; else the plaintext.
aead_open(key, sealed) ==
  IF Len(sealed) < NONCE_LENGTH + TAG_LENGTH + 1 THEN Failed
  ELSE LET nonce == SubSeq(sealed, 1, NONCE_LENGTH)
           ct    == SubSeq(sealed, NONCE_LENGTH + 1, Len(sealed) - TAG_LENGTH)
           tag   == SubSeq(sealed, Len(sealed) - TAG_LENGTH + 1, Len(sealed))
       IN  IF tag # Tag(key, nonce \o ct) THEN Failed
           ELSE Done([j \in 1..Len(ct) |->
                        (ct[j] + 256 - KeyStream(key, nonce, j)) % 256])

\* ------------------------------------------------------- EncryptedKeypair

\* How a call ends: "ok" with val, "err" with a DecryptionError, "panic" with
\* what panicked (an expect, split_at, a poisoned lock).
Returned(v) == [st |-> "ok", val |-> v, err |-> ""]
Raised(e)   == [st |-> "err", val |-> <<>>, err |-> e]
Panicked(e) == [st |-> "panic", val |-> <<>>, err |-> e]

\* fn encryption_key: Password::from_slice(..).and_then(derive_key).expect(..)
encryption_key(salt, password) ==
  LET pw == password_from_slice(password)
  IN  IF ~pw.ok THEN Panicked("expect")
      ELSE LET key == derive_key(pw.val, salt)
           IN  IF ~key.ok THEN Panicked("expect") ELSE Returned(key.val)

\* EncryptedKeypair::new sealing the public half alone.
EncryptedKeypair_new_public_only(keypair, password, salt, nonce) ==
  LET key == encryption_key(salt, password)
  IN  IF key.st = "panic" THEN key
      ELSE LET sealed == aead_seal(key.val, nonce, PublicHalf(keypair))
           IN  IF ~sealed.ok THEN Panicked("expect")
               ELSE Returned(salt \o sealed.val)

\* EncryptedKeypair::new, with the salt and the nonce the random source gave.
EncryptedKeypair_new(keypair, password, salt, nonce) ==
  LET key == encryption_key(salt, password)
  IN  IF key.st = "panic" THEN key
      ELSE LET sealed == aead_seal(key.val, nonce, keypair)
           IN  IF ~sealed.ok THEN Panicked("expect")
               ELSE Returned(salt \o sealed.val)

\* EncryptedKeypair::decrypt. split_at panics when the envelope is shorter
\* than the salt.
EncryptedKeypair_decrypt(envelope, password) ==
  IF Len(envelope) < SALT_LENGTH THEN Panicked("split_at")
  ELSE LET raw_salt == SubSeq(envelope, 1, SALT_LENGTH)
           cipher   == SubSeq(envelope, SALT_LENGTH + 1, Len(envelope))
           salt     == salt_from_slice(raw_salt)
       IN  IF ~salt.ok THEN Raised("BadSalt")
           ELSE LET key == encryption_key(salt.val, password)
                IN  IF key.st = "panic" THEN key
                    ELSE LET data == aead_open(key.val, cipher)
                         IN  IF ~data.ok THEN Raised("DecryptionError")
                             ELSE IF ~IsKeypairBytes(data.val)
                                  THEN Raised("DeserializingError")
                             ELSE Returned(data.val)

\* ------------------------------------------------------------- text codec

ENCRYPTED_KEY_PREFIX == <<"e","n","c","r","y","p","t","e","d",":">>

\* A prefix for the unencrypted form that the other prefix is a prefix of.
UNENCRYPTED_KEY_PREFIX_overlapping == ENCRYPTED_KEY_PREFIX \o <<"0","0">>

UNENCRYPTED_KEY_PREFIX == <<"u","n">> \o ENCRYPTED_KEY_PREFIX

\* str::strip_prefix
strip_prefix(s, prefix) ==
  IF Len(s) >= Len(prefix) /\ SubSeq(s, 1, Len(prefix)) = prefix
  THEN [some |-> TRUE, rest |-> SubSeq(s, Len(prefix) + 1, Len(s))]
  ELSE [some |-> FALSE, rest |-> <<>>]

\* impl Display / FromStr for EncryptedKeypair
EncryptedKeypair_to_string(envelope) == hex_encode(envelope)
EncryptedKeypair_from_str(s) == hex_decode(s)

\* Serialize with the two prefixes swapped.
serialize_swapped(tag, bytes) ==
  IF tag = "Encrypted"
  THEN UNENCRYPTED_KEY_PREFIX \o EncryptedKeypair_to_string(bytes)
  ELSE ENCRYPTED_KEY_PREFIX \o KeypairToString(bytes)

\* impl Serialize for StoredKeypair, over the variant and the bytes it holds
\* (for Raw: the keypair read under the handle's lock).
serialize(tag, bytes) ==
  IF tag = "Encrypted"
  THEN ENCRYPTED_KEY_PREFIX \o EncryptedKeypair_to_string(bytes)
  ELSE UNENCRYPTED_KEY_PREFIX \o KeypairToString(bytes)

Decoded(tag, bytes) == [tag |-> tag, bytes |-> bytes, err |-> ""]
DecodeError(e) == [tag |-> "Error", bytes |-> <<>>, err |-> e]

\* impl Deserialize for StoredKeypair, from the string on.
deserialize(s) ==
  LET raw == strip_prefix(s, UNENCRYPTED_KEY_PREFIX)
      encrypted == strip_prefix(s, ENCRYPTED_KEY_PREFIX)
  IN  IF raw.some
      THEN LET kp == KeypairFromStr(raw.rest)
           IN  IF kp.ok THEN Decoded("Raw", kp.val)
               ELSE DecodeError("InvalidStoredKeypairString")
      ELSE IF encrypted.some
      THEN LET env == EncryptedKeypair_from_str(encrypted.rest)
           IN  IF env.ok THEN Decoded("Encrypted", env.val)
               ELSE DecodeError("InvalidStoredKeypairString")
      ELSE DecodeError("MissingPrefix")

\* ------------------------------------------------------------------ state

\* Holders of handles: threads 1 .. NThreads.
NThreads == 2
\* The heap holds at most MaxCells keypairs, the wallet MaxStored entries.
MaxCells == 3
MaxStored == 2
\* The threads make at most MaxCalls calls in all.
MaxCalls == 4

Threads == 1..NThreads

VARIABLES
  cell,       \* cell[c]: the Keypair inside the c-th Arc<Mutex<Keypair>>
  owner,      \* owner[c]: the thread holding the cell's MutexGuard, or 0
  poisoned,   \* poisoned[c]: a thread panicked while holding the guard
  committed,  \* history: cell[c] when its guard was last released
  stored,     \* the StoredKeypair values, in the order they were made
  th,         \* th[t]: where thread t is, and how its last call ended
  text,       \* the string the serializer last produced / the stored string
  encoded,    \* history: what `text` is the encoding of
  calls       \* the number of calls made so far

vars == <<cell, owner, poisoned, committed, stored, th, text, encoded, calls>>

\* A thread that is not inside a call makes one.
Call(t) ==
  /\ th[t].pc = "idle"
  /\ calls < MaxCalls
  /\ calls' = calls + 1

NoResult ==
  [op |-> "none", st |-> "ok", val |-> <<>>, err |-> "", cell |-> 0,
   src |-> 0, decrypt |-> FALSE, prompted |-> FALSE, answer |-> <<>>,
   seen |-> <<>>, wrote |-> FALSE, heap |-> 0]

Idle == [pc |-> "idle", h |-> 0, arg |-> <<>>, res |-> NoResult]

NotEncoded == [src |-> 0, tag |-> "None", bytes |-> <<>>]

Cells == 1..Len(cell)

\* StoredKeypair::Raw(handle) and StoredKeypair::Encrypted(envelope). The
\* other fields are history: whether StoredKeypair::new made the value, the
\* handle, the keypair and the password it was given, the value's encoding
\* then, and whether no thread held the handle's guard then.
RawKeypair(c, wrapped, orig, settled) ==
  [tag |-> "Raw", cell |-> c, bytes |-> <<>>, wrapped |-> wrapped,
   handle |-> c, orig |-> orig, pw |-> <<>>,
   text0 |-> serialize("Raw", orig), settled |-> settled]
Encrypted(envelope, wrapped, c, orig, pw) ==
  [tag |-> "Encrypted", cell |-> 0, bytes |-> envelope, wrapped |-> wrapped,
   handle |-> c, orig |-> orig, pw |-> pw,
   text0 |-> serialize("Encrypted", envelope), settled |-> TRUE]

\* A lock that excludes nobody.
CanLock_always(c) == TRUE

\* Mutex::lock returns once no other thread holds the guard.
CanLock(c) == owner[c] = 0

\* lock().unwrap() on a poisoned mutex panics.
Panic(t, r, why) ==
  th' = [th EXCEPT ![t] = [pc |-> "panicked", h |-> 0, arg |-> <<>>,
                           res |-> [r EXCEPT !.st = "panic", !.err = why]]]

Finish(t, r) == th' = [th EXCEPT ![t] = [Idle EXCEPT !.res = r]]

\* A handle to the first cell in place of a new one.
AtomicKeypair_from_first(heap) == 1

\* impl From<Keypair> for AtomicKeypair: a new Arc, a new cell of the heap.
AtomicKeypair_from(heap) == Len(heap) + 1

\* impl Clone for AtomicKeypair: the same Arc.
AtomicKeypair_clone(c) == c

Allocate(c, kp) ==
  IF c > Len(cell)
  THEN /\ cell' = Append(cell, kp)
       /\ owner' = Append(owner, 0)
       /\ poisoned' = Append(poisoned, FALSE)
       /\ committed' = Append(committed, kp)
  ELSE /\ cell' = [cell EXCEPT ![c] = kp]
       /\ committed' = [committed EXCEPT ![c] = kp]
       /\ UNCHANGED <<owner, poisoned>>

\* ------------------------------------------------------------ AtomicKeypair

\* AtomicKeypair::public: lock, read the public half, unlock.
Public(t, c) ==
  /\ Call(t)
  /\ CanLock(c)
  /\ IF poisoned[c]
     THEN Panic(t, [NoResult EXCEPT !.op = "public", !.cell = c], "PoisonError")
     ELSE Finish(t, [NoResult EXCEPT !.op = "public", !.cell = c,
                                     !.val = PublicHalf(cell[c]),
                                     !.seen = PublicHalf(committed[c])])
  /\ UNCHANGED <<cell, owner, poisoned, committed, stored, text, encoded>>

\* AtomicKeypair::to_bytes: lock, copy the bytes, unlock.
ToBytes(t, c) ==
  /\ Call(t)
  /\ CanLock(c)
  /\ IF poisoned[c]
     THEN Panic(t, [NoResult EXCEPT !.op = "to_bytes", !.cell = c],
                "PoisonError")
     ELSE Finish(t, [NoResult EXCEPT !.op = "to_bytes", !.cell = c,
                                     !.val = cell[c],
                                     !.seen = committed[c]])
  /\ UNCHANGED <<cell, owner, poisoned, committed, stored, text, encoded>>

\* AtomicKeypair::lock: the caller gets the MutexGuard.
Lock(t, c) ==
  /\ Call(t)
  /\ CanLock(c)
  /\ IF poisoned[c]
     THEN /\ Panic(t, [NoResult EXCEPT !.op = "lock", !.cell = c],
                   "PoisonError")
          /\ UNCHANGED owner
     ELSE /\ th' = [th EXCEPT ![t] = [pc |-> "locked", h |-> c, arg |-> <<>>,
                                      res |-> [NoResult EXCEPT !.op = "lock",
                                                               !.cell = c]]]
          /\ owner' = [owner EXCEPT ![c] = t]
  /\ UNCHANGED <<cell, poisoned, committed, stored, text, encoded>>

\* The holder of the guard replaces the keypair (*guard = kp): the store is
\* not atomic, the secret half lands first ...
WriteSecret(t, kp) ==
  /\ th[t].pc = "locked"
  /\ cell' = [cell EXCEPT ![th[t].h] = SecretHalf(kp) \o PublicHalf(@)]
  /\ th' = [th EXCEPT ![t].pc = "writing", ![t].arg = kp]
  /\ UNCHANGED <<owner, poisoned, committed, stored, text, encoded>>
  /\ UNCHANGED calls

\* ... then the public half.
WritePublic(t) ==
  /\ th[t].pc = "writing"
  /\ cell' = [cell EXCEPT ![th[t].h] = SecretHalf(@) \o PublicHalf(th[t].arg)]
  /\ th' = [th EXCEPT ![t].pc = "locked", ![t].arg = <<>>,
                       ![t].res.wrote = TRUE]
  /\ UNCHANGED <<owner, poisoned, committed, stored, text, encoded>>
  /\ UNCHANGED calls

\* The guard is dropped: the write is committed, the lock is free.
Unlock(t) ==
  /\ th[t].pc = "locked"
  /\ owner' = [owner EXCEPT ![th[t].h] = 0]
  /\ committed' = [committed EXCEPT ![th[t].h] = cell[th[t].h]]
  /\ th' = [th EXCEPT ![t].pc = "idle", ![t].h = 0]
  /\ UNCHANGED <<cell, poisoned, stored, text, encoded>>
  /\ UNCHANGED calls

\* ------------------------------------------------------------ StoredKeypair

\* StoredKeypair::new(keypair, None): Raw(keypair.clone()); the lock is not
\* taken.
NewRaw(t, c) ==
  /\ Call(t)
  /\ Len(stored) < MaxStored
  /\ stored' = Append(stored,
                      RawKeypair(AtomicKeypair_clone(c), TRUE, committed[c],
                                 owner[c] = 0))
  /\ Finish(t, [NoResult EXCEPT !.op = "new", !.cell = c,
                                !.src = Len(stored) + 1])
  /\ UNCHANGED <<cell, owner, poisoned, committed, text, encoded>>

\* StoredKeypair::new(keypair, Some(password)), to keypair.lock().
NewLock(t, c, password) ==
  /\ Call(t)
  /\ Len(stored) < MaxStored
  /\ CanLock(c)
  /\ IF poisoned[c]
     THEN /\ Panic(t, [NoResult EXCEPT !.op = "new", !.cell = c],
                   "PoisonError")
          /\ UNCHANGED owner
     ELSE /\ th' = [th EXCEPT ![t] = [pc |-> "wrapping", h |-> c,
                                      arg |-> password,
                                      res |-> [NoResult EXCEPT !.op = "new",
                                                               !.cell = c]]]
          /\ owner' = [owner EXCEPT ![c] = t]
  /\ UNCHANGED <<cell, poisoned, committed, stored, text, encoded>>

\* ... and from EncryptedKeypair::new on, the guard held: a panic unwinds
\* through the guard, which poisons the mutex as it unlocks it.
NewEncrypt(t, salt, nonce) ==
  /\ th[t].pc = "wrapping"
  /\ LET c == th[t].h
         r == EncryptedKeypair_new(cell[c], th[t].arg, salt, nonce)
     IN  /\ owner' = [owner EXCEPT ![c] = 0]
         /\ IF r.st = "panic"
            THEN /\ poisoned' = [poisoned EXCEPT ![c] = TRUE]
                 /\ Panic(t, th[t].res, r.err)
                 /\ UNCHANGED stored
            ELSE /\ stored' = Append(stored,
                                Encrypted(r.val, TRUE, c, cell[c], th[t].arg))
                 /\ Finish(t, [NoResult EXCEPT !.op = "new", !.cell = c,
                                               !.src = Len(stored) + 1])
                 /\ UNCHANGED poisoned
  /\ UNCHANGED <<cell, committed, text, encoded>>
  /\ UNCHANGED calls

\* heap is history: how many cells there were when get was called.
GetResult(i, decrypt) ==
  [NoResult EXCEPT !.op = "get", !.src = i, !.decrypt = decrypt,
                   !.heap = Len(cell)]

\* StoredKeypair::get on Raw: a clone of the handle.
GetRaw(t, i, decrypt) ==
  /\ Call(t)
  /\ stored[i].tag = "Raw"
  /\ Finish(t, [GetResult(i, decrypt) EXCEPT
                  !.cell = AtomicKeypair_clone(stored[i].cell)])
  /\ UNCHANGED <<cell, owner, poisoned, committed, stored, text, encoded>>

\* get asking for the password before it looks at the decrypt flag.
Prompts_any_encrypted(tag, decrypt) == tag = "Encrypted"

\* Whether get asks read_password for the password.
Prompts(tag, decrypt) == tag = "Encrypted" /\ decrypt

\* StoredKeypair::get on Encrypted; answer is what read_password returns
\* when it is called.
GetEncrypted(t, i, decrypt, answer) ==
  /\ Call(t)
  /\ stored[i].tag = "Encrypted"
  /\ IF ~Prompts(stored[i].tag, decrypt)
     THEN /\ Finish(t, [GetResult(i, decrypt) EXCEPT
                          !.st = "err", !.err = "NotDecrypting"])
          /\ UNCHANGED <<cell, owner, poisoned, committed>>
     ELSE LET r == EncryptedKeypair_decrypt(stored[i].bytes, answer)
              asked == [GetResult(i, decrypt) EXCEPT !.prompted = TRUE,
                                                     !.answer = answer]
          IN  CASE r.st = "panic" ->
                     /\ Panic(t, asked, r.err)
                     /\ UNCHANGED <<cell, owner, poisoned, committed>>
                [] r.st = "err" ->
                     /\ Finish(t, [asked EXCEPT !.st = "err", !.err = r.err])
                     /\ UNCHANGED <<cell, owner, poisoned, committed>>
                [] OTHER ->
                     /\ Len(cell) < MaxCells
                     /\ Allocate(AtomicKeypair_from(cell), r.val)
                     /\ Finish(t, [asked EXCEPT
                                     !.cell = AtomicKeypair_from(cell),
                                     !.val = r.val])
  /\ UNCHANGED <<stored, text, encoded>>

\* impl Serialize for StoredKeypair; Raw formats the keypair under its lock.
Serialize(t, i) ==
  /\ Call(t)
  /\ IF stored[i].tag = "Raw"
     THEN /\ CanLock(stored[i].cell)
          /\ IF poisoned[stored[i].cell]
             THEN /\ Panic(t, [NoResult EXCEPT !.op = "serialize",
                                                !.src = i], "PoisonError")
                  /\ UNCHANGED <<text, encoded>>
             ELSE /\ text' = serialize("Raw", cell[stored[i].cell])
                  /\ encoded' = [src |-> i, tag |-> "Raw",
                                 bytes |-> cell[stored[i].cell]]
                  /\ Finish(t, [NoResult EXCEPT !.op = "serialize", !.src = i])
     ELSE /\ text' = serialize("Encrypted", stored[i].bytes)
          /\ encoded' = [src |-> i, tag |-> "Encrypted",
                         bytes |-> stored[i].bytes]
          /\ Finish(t, [NoResult EXCEPT !.op = "serialize", !.src = i])
  /\ UNCHANGED <<cell, owner, poisoned, committed, stored>>

\* impl Deserialize for StoredKeypair, of the stored string.
Deserialize(t) ==
  /\ Call(t)
  /\ Len(stored) < MaxStored
  /\ LET d == deserialize(text)
         r == [NoResult EXCEPT !.op = "deserialize", !.val = d.bytes]
     IN  CASE d.tag = "Error" ->
                /\ Finish(t, [r EXCEPT !.st = "err", !.err = d.err])
                /\ UNCHANGED <<cell, owner, poisoned, committed, stored>>
           [] d.tag = "Raw" ->
                /\ Len(cell) < MaxCells
                /\ Allocate(AtomicKeypair_from(cell), d.bytes)
                /\ stored' = Append(stored,
                     RawKeypair(AtomicKeypair_from(cell), FALSE, d.bytes,
                                TRUE))
                /\ Finish(t, [r EXCEPT !.src = Len(stored) + 1,
                                       !.cell = AtomicKeypair_from(cell)])
           [] OTHER ->
                /\ stored' = Append(stored,
                                    Encrypted(d.bytes, FALSE, 0, <<>>, <<>>))
                /\ Finish(t, [r EXCEPT !.src = Len(stored) + 1])
                /\ UNCHANGED <<cell, owner, poisoned, committed>>
  /\ UNCHANGED <<text, encoded>>

\* ---------------------------------------------------------- specifications

\* One handle to a generated keypair, shared by the threads; nothing stored.
Init ==
  /\ cell = <<GenKeypair(1)>>
  /\ owner = <<0>>
  /\ poisoned = <<FALSE>>
  /\ committed = cell
  /\ stored = <<>>
  /\ th = [t \in Threads |-> Idle]
  /\ text = <<>>
  /\ encoded = NotEncoded
  /\ calls = 0

Next ==
  \/ \E t \in Threads, c \in Cells : Public(t, c)
  \/ \E t \in Threads, c \in Cells : ToBytes(t, c)
  \/ \E t \in Threads, c \in Cells : Lock(t, c)
  \/ \E t \in Threads, kp \in Keypairs : WriteSecret(t, kp)
  \/ \E t \in Threads : WritePublic(t)
  \/ \E t \in Threads : Unlock(t)
  \/ \E t \in Threads, c \in Cells : NewRaw(t, c)
  \/ \E t \in Threads, c \in Cells, p \in Passwords : NewLock(t, c, p)
  \/ \E t \in Threads, salt \in Salts, nonce \in Nonces : NewEncrypt(t, salt, nonce)
  \/ \E t \in Threads, i \in 1..Len(stored), d \in BOOLEAN : GetRaw(t, i, d)
  \/ \E t \in Threads, i \in 1..Len(stored), d \in BOOLEAN, a \in Passwords :
       GetEncrypted(t, i, d, a)
  \/ \E t \in Threads, i \in 1..Len(stored) : Serialize(t, i)

Spec == Init /\ [][Next]_vars

\* ------------------------------------------------- the codec, sequentially

\* An envelope StoredKeypair::new made, and what a damaged or foreign store
\* can hold in its place.
GoodEnvelope ==
  EncryptedKeypair_new(GenKeypair(1), <<97>>, Fill(SALT_LENGTH, 1),
                       Fill(NONCE_LENGTH, 16)).val

CutLengths ==
  {SALT_LENGTH - 1, SALT_LENGTH, SALT_LENGTH + NONCE_LENGTH + TAG_LENGTH,
   SALT_LENGTH + NONCE_LENGTH + TAG_LENGTH + 1, Len(GoodEnvelope) - 1}

FlipPositions ==
  {1, SALT_LENGTH + 1, SALT_LENGTH + NONCE_LENGTH + 1, Len(GoodEnvelope)}

Flip(bytes, i) == [bytes EXCEPT ![i] = (@ + 1) % 256]

\* Byte strings that are no keypair: one byte short, and a public half that
\* is no point.
NotKeypairs ==
  {SubSeq(GenKeypair(1), 1, KEYPAIR_LENGTH - 1),
   [GenKeypair(1) EXCEPT ![SECRET_LENGTH + 1] = 2]}

\* Envelopes that open under "a" and hold no keypair.
ForeignEnvelopes ==
  {Fill(SALT_LENGTH, 1) \o
     aead_seal(derive_key(<<97>>, Fill(SALT_LENGTH, 1)).val,
               Fill(NONCE_LENGTH, 16), plain).val : plain \in NotKeypairs}

InputEnvelopes ==
  SeqsUpTo({0, 255}, MaxJunkLen)
    \cup {GoodEnvelope}
    \cup {SubSeq(GoodEnvelope, 1, n) : n \in CutLengths}
    \cup {Flip(GoodEnvelope, i) : i \in FlipPositions}
    \cup ForeignEnvelopes

InputPayloads ==
  {hex_encode(b) : b \in InputEnvelopes \cup Keypairs \cup NotKeypairs}
    \cup {<<"0">>, <<"z", "z">>, <<"A", "B">>, <<"0", "g">>}

\* Strings that start like a prefix and are none.
NearPrefixes ==
  {<<>>, SubSeq(ENCRYPTED_KEY_PREFIX, 1, Len(ENCRYPTED_KEY_PREFIX) - 1),
   <<"E">> \o Tail(ENCRYPTED_KEY_PREFIX),
   <<"x">> \o ENCRYPTED_KEY_PREFIX,
   <<"x">> \o UNENCRYPTED_KEY_PREFIX}

InputTexts ==
  {p \o w : p \in {UNENCRYPTED_KEY_PREFIX, ENCRYPTED_KEY_PREFIX},
            w \in InputPayloads}
    \cup {p \o hex_encode(b) : p \in NearPrefixes,
                               b \in {<<>>, <<0>>, GenKeypair(1)}}

\* One thread, one handle, and a stored string of any shape.
InitCodec ==
  /\ cell = <<GenKeypair(1)>>
  /\ owner = <<0>>
  /\ poisoned = <<FALSE>>
  /\ committed = cell
  /\ stored = <<>>
  /\ th = [t \in Threads |-> Idle]
  /\ text \in InputTexts
  /\ encoded = NotEncoded
  /\ calls = 0

NextCodec ==
  \/ \E c \in Cells : NewRaw(1, c)
  \/ \E c \in Cells, p \in Passwords : NewLock(1, c, p)
  \/ \E salt \in Salts, nonce \in Nonces : NewEncrypt(1, salt, nonce)
  \/ \E i \in 1..Len(stored), d \in BOOLEAN : GetRaw(1, i, d)
  \/ \E i \in 1..Len(stored), d \in BOOLEAN, a \in Passwords :
       GetEncrypted(1, i, d, a)
  \/ \E i \in 1..Len(stored) : Serialize(1, i)
  \/ Deserialize(1)

SpecCodec == InitCodec /\ [][NextCodec]_vars

\* ----------------------------------------------------------------- claims

Res(t) == th[t].res

\* A get of stored[i] that was answered the password stored[i] was wrapped with.
RightPassword(r) ==
  /\ r.op = "get"
  /\ stored[r.src].wrapped
  /\ stored[r.src].tag = "Encrypted"
  /\ r.decrypt
  /\ r.answer = stored[r.src].pw

\* C1: wrapping then unwrapping gives back the keypair. StoredKeypair::new
\* returns for every keypair and every password choice; get on the Raw value
\* it made returns the wrapped handle's storage; get(decrypt = true) on the
\* Encrypted value it made, the prompt answering the wrap password, returns a
\* handle holding the bytes the handle held at the wrap.
C1_RoundTrip ==
  \A t \in Threads :
    /\ Res(t).op = "new" => Res(t).st = "ok"
    /\ Res(t).op = "get" /\ stored[Res(t).src].wrapped
         /\ stored[Res(t).src].tag = "Raw"
         => Res(t).st = "ok" /\ Res(t).cell = stored[Res(t).src].handle
    /\ RightPassword(Res(t))
         => Res(t).st = "ok" /\ Res(t).val = stored[Res(t).src].orig

\* C2: get(decrypt = true) on a value wrapped with password p1, the prompt
\* answering another password p2, fails with DecryptionError: it returns no
\* handle, and it does return.
C2_WrongPassword ==
  \A t \in Threads :
    /\ Res(t).op = "get"
    /\ stored[Res(t).src].wrapped
    /\ stored[Res(t).src].tag = "Encrypted"
    /\ Res(t).decrypt
    /\ Res(t).answer # stored[Res(t).src].pw
    => Res(t).st = "err" /\ Res(t).err = "DecryptionError"

\* C3: get(decrypt = true) on an Encrypted value decoded from a stored string,
\* whatever its bytes and whatever the password, returns: a handle, or one of
\* BadSalt, DecryptionError, DeserializingError. It never panics.
C3_NoAbnormalEnd ==
  \A t \in Threads :
    /\ Res(t).op = "get"
    /\ ~stored[Res(t).src].wrapped
    /\ stored[Res(t).src].tag = "Encrypted"
    /\ Res(t).decrypt
    => \/ Res(t).st = "ok"
       \/ /\ Res(t).st = "err"
          /\ Res(t).err \in {"BadSalt", "DecryptionError", "DeserializingError"}

\* C4 as claimed: for either variant, whatever was done to the handle since
\* StoredKeypair::new (called while no guard of the handle was held), the
\* stored value encodes to the text it encoded to then, and a get of it
\* yields the bytes the handle held then.
C4_NeverMutated ==
  /\ /\ encoded.src # 0
     /\ stored[encoded.src].wrapped
     /\ stored[encoded.src].settled
     => text = stored[encoded.src].text0
  /\ \A t \in Threads :
       /\ Res(t).op = "get" /\ Res(t).st = "ok"
       /\ stored[Res(t).src].wrapped
       /\ stored[Res(t).src].settled
       => IF stored[Res(t).src].tag = "Raw"
          THEN committed[Res(t).cell] = stored[Res(t).src].orig
          ELSE Res(t).val = stored[Res(t).src].orig

\* C4, amended: an Encrypted stored keypair is never mutated. Whatever was
\* done to the handle since StoredKeypair::new, replacing its keypair
\* included, the value encodes to the text it encoded to then and
\* get(decrypt = true) with the wrap password returns the bytes the handle
\* held then.
C4_EncryptedNeverMutated ==
  /\ /\ encoded.src # 0
     /\ stored[encoded.src].wrapped
     /\ stored[encoded.src].tag = "Encrypted"
     => text = stored[encoded.src].text0
  /\ \A t \in Threads :
       RightPassword(Res(t))
       => Res(t).st = "ok" /\ Res(t).val = stored[Res(t).src].orig

\* An Encrypted value whose handle's keypair was replaced after the wrap has
\* been decrypted with the wrap password.
C4_Witness ==
  \E t \in Threads :
    /\ RightPassword(Res(t))
    /\ committed[stored[Res(t).src].handle] # stored[Res(t).src].orig

\* C5: however an access to the handle's storage ended, the lock is free and
\* usable afterwards: no call on a clone of the handle fails to take the lock.
C5_LockUsableAfterAnyEnding ==
  \A t \in Threads : ~(Res(t).st = "panic" /\ Res(t).err = "PoisonError")

\* C6: the clones share one storage under mutual exclusion. No two threads
\* hold the guard of one cell, a cell changes only under its guard, and
\* every public() and to_bytes() that returns, on whichever clone, returns
\* the value of the latest committed write to the cell, never a mixture.
C6_SharedAndExclusive ==
  /\ \A t1, t2 \in Threads :
       t1 # t2 /\ th[t1].h # 0 => th[t1].h # th[t2].h
  /\ \A c \in Cells : owner[c] = 0 => cell[c] = committed[c]
  /\ \A t \in Threads :
       Res(t).op \in {"public", "to_bytes"} /\ Res(t).st = "ok"
       => Res(t).val = Res(t).seen

\* One thread replaced the keypair and dropped the guard; another thread's
\* to_bytes() on the same cell returned the replacement.
C6_Witness ==
  \E t1, t2 \in Threads :
    /\ t1 # t2
    /\ Res(t1).op = "lock" /\ Res(t1).wrote /\ th[t1].pc = "idle"
    /\ Res(t2).op = "to_bytes" /\ Res(t2).st = "ok"
    /\ Res(t2).cell = Res(t1).cell
    /\ Res(t2).val = GenKeypair(2)

\* C7: read_password is called only by get(decrypt = true) on an Encrypted
\* value. get(decrypt = false) on an Encrypted value fails with NotDecrypting
\* without prompting; get on a Raw value returns without prompting.
C7_PromptOnlyToDecrypt ==
  \A t \in Threads :
    Res(t).op = "get" =>
      LET sk == stored[Res(t).src]
      IN  /\ Res(t).prompted <=> (sk.tag = "Encrypted" /\ Res(t).decrypt)
          /\ sk.tag = "Encrypted" /\ ~Res(t).decrypt
               => Res(t).st = "err" /\ Res(t).err = "NotDecrypting"
          /\ sk.tag = "Raw" => Res(t).st = "ok"

\* get(decrypt = false) on an Encrypted value has failed with NotDecrypting.
C7_Witness ==
  \E t \in Threads :
    /\ Res(t).op = "get"
    /\ stored[Res(t).src].tag = "Encrypted"
    /\ ~Res(t).decrypt
    /\ Res(t).err = "NotDecrypting"

\* C8: decoding the text a stored keypair encoded to succeeds and gives the
\* same variant with the same bytes: the keypair for Raw, the envelope for
\* Encrypted.
C8_TextRoundTrip ==
  \A t \in Threads :
    Res(t).op = "deserialize" /\ encoded.src # 0
    => /\ Res(t).st = "ok"
       /\ stored[Res(t).src].tag = encoded.tag
       /\ Res(t).val = encoded.bytes
       /\ IF encoded.tag = "Raw"
          THEN cell[stored[Res(t).src].cell] = encoded.bytes
          ELSE stored[Res(t).src].bytes = encoded.bytes

\* The encoding of an Encrypted value made by StoredKeypair::new was decoded.
C8_Witness ==
  \E t \in Threads :
    /\ Res(t).op = "deserialize" /\ Res(t).st = "ok"
    /\ encoded.tag = "Encrypted"
    /\ stored[encoded.src].wrapped

StartsWith(s, prefix) ==
  /\ Len(s) >= Len(prefix)
  /\ \A i \in 1..Len(prefix) : s[i] = prefix[i]

\* Deserialize with the two prefixes tried in the other order.
deserialize_encrypted_first(s) ==
  LET raw == strip_prefix(s, UNENCRYPTED_KEY_PREFIX)
      encrypted == strip_prefix(s, ENCRYPTED_KEY_PREFIX)
  IN  IF encrypted.some
      THEN LET env == EncryptedKeypair_from_str(encrypted.rest)
           IN  IF env.ok THEN Decoded("Encrypted", env.val)
               ELSE DecodeError("InvalidStoredKeypairString")
      ELSE IF raw.some
      THEN LET kp == KeypairFromStr(raw.rest)
           IN  IF kp.ok THEN Decoded("Raw", kp.val)
               ELSE DecodeError("InvalidStoredKeypairString")
      ELSE DecodeError("MissingPrefix")

\* What a finished Deserialize returned, as deserialize gives it.
Outcome(r) ==
  IF r.st = "ok" THEN Decoded(stored[r.src].tag, r.val) ELSE DecodeError(r.err)

\* C9: decoding fails with MissingPrefix exactly when the string starts with
\* neither prefix; a string that starts with a prefix is parsed as that
\* variant or fails with InvalidStoredKeypairString; and trying the prefixes
\* in the other order gives the same outcome.
C9_MissingPrefixIff ==
  \A t \in Threads :
    Res(t).op = "deserialize" =>
      LET out == Outcome(Res(t))
          un  == StartsWith(text, UNENCRYPTED_KEY_PREFIX)
          en  == StartsWith(text, ENCRYPTED_KEY_PREFIX)
      IN  /\ out.err = "MissingPrefix" <=> (~un /\ ~en)
          /\ un => out.tag = "Raw" \/ out.err = "InvalidStoredKeypairString"
          /\ en => out.tag = "Encrypted" \/ out.err = "InvalidStoredKeypairString"
          /\ out = deserialize_encrypted_first(text)

\* A string that holds "encrypted:" after its first character, and starts with
\* neither prefix, was refused with MissingPrefix.
C9_Witness ==
  \E t \in Threads :
    /\ Res(t).op = "deserialize"
    /\ Res(t).err = "MissingPrefix"
    /\ Len(text) > 0
    /\ StartsWith(Tail(text), ENCRYPTED_KEY_PREFIX)

\* A successful get(decrypt = true) on Encrypted.
FreshGet(r) ==
  r.op = "get" /\ r.st = "ok" /\ stored[r.src].tag = "Encrypted"

\* C10: get on a Raw value returns the storage of the handle the value was
\* made from; every successful get(decrypt = true) on an Encrypted value
\* returns storage of its own: not the original handle's, not any storage
\* that existed when get was called, not that of another get. A cell changes
\* only under its own guard, so a replacement through such a handle shows
\* nowhere else.
C10_StorageSharing ==
  /\ \A t \in Threads :
       /\ Res(t).op = "get" /\ Res(t).st = "ok" /\ stored[Res(t).src].tag = "Raw"
            => Res(t).cell = stored[Res(t).src].handle
       /\ FreshGet(Res(t))
            => /\ Res(t).cell # stored[Res(t).src].handle
               /\ Res(t).cell \notin 1..Res(t).heap
               /\ \A u \in Threads \ {t} :
                    FreshGet(Res(u)) => Res(u).cell # Res(t).cell
  /\ \A c \in Cells : owner[c] = 0 => cell[c] = committed[c]

\* The keypair was replaced through a handle that get(decrypt = true)
\* returned; the original handle still holds the keypair that was wrapped.
C10_Witness ==
  \E t \in Threads :
    /\ FreshGet(Res(t))
    /\ stored[Res(t).src].wrapped
    /\ committed[Res(t).cell] # Res(t).val
    /\ committed[stored[Res(t).src].handle] = stored[Res(t).src].orig

=============================================================================
